---- MODULE Spec2Model ----
(***************************************************************************)
(* Model of the handwritten-text-recognition application (src/main.py):    *)
(* check_file_access, OCRProcessor (process_image, save_to_pdf,            *)
(* calculate_similarity) and the OCRApp session handlers (browse_files,    *)
(* convert_to_pdf).                                                        *)
(***************************************************************************)
EXTENDS Integers, Sequences, FiniteSets, TLC

VARIABLES
    simA, simB, simOut,     \* calculate_similarity: its two texts, what it returned
    img, preOut,            \* preprocessing: the decoded image, the binarized buffer
    started,                \* __main__ has built the OCRProcessor and the OCRApp
    tesseract_cmd,          \* pytesseract.pytesseract.tesseract_cmd (module global)
    result,                 \* OCRApp.result
    outdir,                 \* the directory "output" exists
    pdfs,                   \* the files of "output": records [name, text]
    last,                   \* what the last operation did, as seen from outside
    lastCtor,               \* history: path given to the latest OCRProcessor(...)
    lastOk,                 \* history: text of the latest successful process_image
    convFailed,             \* history: the latest process_image call failed
    writes                  \* history: the successful save_to_pdf calls, in order

simVars == <<simA, simB, simOut>>
preVars == <<img, preOut>>
appVars == <<started, tesseract_cmd, result, outdir, pdfs, last,
             lastCtor, lastOk, convFailed, writes>>
vars == <<simA, simB, simOut, img, preOut, started, tesseract_cmd, result,
          outdir, pdfs, last, lastCtor, lastOk, convFailed, writes>>

(***************************************************************************)
(* Bounds of the model.                                                    *)
(***************************************************************************)
\* Longest text handed to calculate_similarity.
MaxLen == 3

\* Characters texts are made of.
Alphabet == {"a", "b", "c"}

Max(S) == CHOOSE x \in S : \A y \in S : y <= x
Min(S) == CHOOSE x \in S : \A y \in S : x <= y

SeqsUpTo(S, n) == UNION {[1..k -> S] : k \in 0..n}

Texts == SeqsUpTo(Alphabet, MaxLen)

\* s repeated cyclically to n characters.
RepeatTo(s, n) == [k \in 1..n |-> s[((k - 1) % Len(s)) + 1]]

\* Texts long enough for SequenceMatcher's autojunk heuristic (200 or more).
LongTexts ==
    { RepeatTo(<<"a", "b">>, 200),
      <<"c">> \o RepeatTo(<<"a", "b">>, 200),
      RepeatTo(<<"a">>, 200) }

SimTexts == Texts \cup LongTexts

\* Most pixels of a decoded image.
MaxPixels == 4

\* Pixel colours (blue, green, red), as cv2.imread decodes them: black, white
\* and pure red.
Colours == {<<0, 0, 0>>, <<255, 255, 255>>, <<0, 0, 255>>}

\* The decoded images: h rows of w pixels, stored row by row.
Shapes == {s \in (1..MaxPixels) \X (1..MaxPixels) : s[1] * s[2] <= MaxPixels}
Images ==
    UNION {[h : {s[1]}, w : {s[2]}, px : [1..(s[1] * s[2]) -> Colours]] : s \in Shapes}

\* Clock readings range over MaxTick half-seconds from the first one.
MaxTick == 3

\* Most save_to_pdf calls whose history is kept.
MaxWrites == 3

(***************************************************************************)
(* The environment: the files a path may name, the installed recognition   *)
(* engines, what the engine answers, the clock.                            *)
(***************************************************************************)
\* The paths the file dialog may return, with what os.path.exists,
\* os.access(R_OK) and os.stat answer for each, the size in bytes and the
\* image the bytes decode to (none for an empty or corrupted file).
Files ==
    [p \in {"missing.png", "locked.png", "lockeddir", "dir", "empty.png",
            "corrupt.png", "scan.png", "blank.png"} |->
        CASE p = "missing.png" ->
               [exists |-> FALSE, readable |-> FALSE, regular |-> FALSE,
                mode |-> "", size |-> 0, image |-> <<>>]
          [] p = "locked.png" ->
               [exists |-> TRUE, readable |-> FALSE, regular |-> TRUE,
                mode |-> "0o100200", size |-> 10, image |-> <<>>]
          [] p = "lockeddir" ->
               [exists |-> TRUE, readable |-> FALSE, regular |-> FALSE,
                mode |-> "0o40300", size |-> 0, image |-> <<>>]
          [] p = "dir" ->
               [exists |-> TRUE, readable |-> TRUE, regular |-> FALSE,
                mode |-> "0o40755", size |-> 0, image |-> <<>>]
          [] p = "empty.png" ->
               [exists |-> TRUE, readable |-> TRUE, regular |-> TRUE,
                mode |-> "0o100644", size |-> 0, image |-> <<>>]
          [] p = "corrupt.png" ->
               [exists |-> TRUE, readable |-> TRUE, regular |-> TRUE,
                mode |-> "0o100644", size |-> 10, image |-> <<>>]
          [] p = "scan.png" ->
               [exists |-> TRUE, readable |-> TRUE, regular |-> TRUE,
                mode |-> "0o100644", size |-> 90,
                image |-> <<[h |-> 1, w |-> 2,
                             px |-> <<<<0, 0, 0>>, <<255, 255, 255>>>>]>>]
          [] OTHER ->
               [exists |-> TRUE, readable |-> TRUE, regular |-> TRUE,
                mode |-> "0o100644", size |-> 70,
                image |-> <<[h |-> 1, w |-> 1, px |-> <<<<255, 255, 255>>>>]>>]]

Paths == DOMAIN Files

\* TESSERACT_PATH of __main__.
TESSERACT_PATH == "C:\\Program Files\\Tesseract-OCR\\tesseract.exe"

\* pytesseract's tesseract_cmd before any OCRProcessor is constructed.
DefaultCmd == "tesseract"

\* Paths an OCRProcessor may be constructed with, and those of them at which
\* a recognition engine is installed.
EnginePaths == {TESSERACT_PATH, "/usr/bin/tesseract", "/opt/none/tesseract"}
Installed == {TESSERACT_PATH, "/usr/bin/tesseract", DefaultCmd}

\* Texts the engine may return; "U+2019" stands for the one character
\* RIGHT SINGLE QUOTATION MARK, which Latin-1 cannot encode.
OcrTexts == {<<>>, <<"W", "e">>, <<"a", "b">>, <<"U+2019", "a">>}

\* The characters of these texts that the PDF writer, whose core fonts are
\* Latin-1 encoded, refuses.
NotLatin1 == {"U+2019"}

\* What an installed engine may do with an image: return a text, or fail
\* with a cause message.
EngineOutcomes ==
    [ok : {TRUE}, text : OcrTexts, cause : {<<>>}]
    \cup [ok : {FALSE}, text : {<<>>},
          cause : {<<"(1, 'Error opening data file eng.traineddata')">>,
                   <<"Tesseract process timeout">>}]

\* Ways the file system may refuse save_to_pdf: not at all, at os.makedirs,
\* at pdf.output.
Faults == {"none", "makedirs", "output"}

\* A clock reading: the day (proleptic Gregorian ordinal) and the half-second
\* of the day.  The readings start at 2023-12-31 23:59:59.0.
Reading(k) ==
    LET t == 172798 + k
    IN  [day |-> 738885 + (t \div 172800), tick |-> t % 172800]

Readings == {Reading(k) : k \in 0..MaxTick}

\* Half-seconds from reading r1 to reading r2.
TicksBetween(r1, r2) == (r2.day - r1.day) * 172800 + (r2.tick - r1.tick)

\* The second (since the first reading's midnight) a reading falls in.
SecondOf(r) == (r.day - 738885) * 86400 + (r.tick \div 2)

(***************************************************************************)
(* calculate_similarity: difflib.SequenceMatcher(None, text1, text2)       *)
(* .ratio() * 100.  Positions are 0-based and ranges half-open as in the   *)
(* library; a[i] of the library is a[i+1] here.                            *)
(***************************************************************************)
\* SequenceMatcher.__chain_b with autojunk=True (the default, isjunk=None):
\* when the second sequence has 200 or more elements, those occurring more
\* than len(b) // 100 + 1 times are "popular" and are left out of b2j.
bpopular(b) ==
    IF Len(b) >= 200
    THEN {c \in {b[j] : j \in 1..Len(b)} :
            Cardinality({j \in 1..Len(b) : b[j] = c}) > (Len(b) \div 100) + 1}
    ELSE {}

\* Length of the common run of a and b that starts at (i, j), stays inside
\* [i, ahi) x [j, bhi) and uses only elements indexed by b2j (j2len in
\* find_longest_match): the first offset at which the run breaks.
RunLen(a, b, pop, i, j, ahi, bhi) ==
    IF i < ahi /\ j < bhi /\ a[i + 1] = b[j + 1] /\ b[j + 1] \notin pop
    THEN LET lim == Min({ahi - i, bhi - j})
             brk == {n \in 1..(lim - 1) :
                        a[i + n + 1] # b[j + n + 1] \/ b[j + n + 1] \in pop}
         IN  IF brk = {} THEN lim ELSE Min(brk)
    ELSE 0

\* Number of equal elements walking backwards from (i-1, j-1) down to (alo, blo).
ExtBack(a, b, i, j, alo, blo) ==
    LET lim == Min({i - alo, j - blo})
        brk == {n \in 0..(lim - 1) : a[i - n] # b[j - n]}
    IN  IF brk = {} THEN lim ELSE Min(brk)

\* Number of equal elements walking forwards from (i, j) up to (ahi, bhi).
ExtFwd(a, b, i, j, ahi, bhi) ==
    LET lim == Min({ahi - i, bhi - j})
        brk == {n \in 0..(lim - 1) : a[i + n + 1] # b[j + n + 1]}
    IN  IF brk = {} THEN lim ELSE Min(brk)

\* find_longest_match without the two extension loops that follow the search.
find_longest_match_noext(a, b, pop, alo, ahi, blo, bhi) ==
    LET cand == (alo..(ahi - 1)) \X (blo..(bhi - 1))
        K    == IF cand = {} THEN 0
                ELSE Max({RunLen(a, b, pop, c[1], c[2], ahi, bhi) : c \in cand})
        best == {c \in cand : RunLen(a, b, pop, c[1], c[2], ahi, bhi) = K}
        bi   == IF K = 0 THEN alo ELSE Min({c[1] : c \in best})
        bj   == IF K = 0 THEN blo ELSE Min({c[2] : c \in {d \in best : d[1] = bi}})
    IN  [i |-> bi, j |-> bj, k |-> K]

\* SequenceMatcher.find_longest_match(alo, ahi, blo, bhi): the longest block
\* a[i:i+k] == b[j:j+k]; of all maximal blocks the one that starts earliest
\* in a, and of those the one that starts earliest in b; (alo, blo, 0) when
\* there is none.  The block is then extended on both ends by equal elements
\* (isbjunk is never true, as no junk function is given).
find_longest_match(a, b, pop, alo, ahi, blo, bhi) ==
    LET cand == (alo..(ahi - 1)) \X (blo..(bhi - 1))
        K    == IF cand = {} THEN 0
                ELSE Max({RunLen(a, b, pop, c[1], c[2], ahi, bhi) : c \in cand})
        best == {c \in cand : RunLen(a, b, pop, c[1], c[2], ahi, bhi) = K}
        bi   == IF K = 0 THEN alo ELSE Min({c[1] : c \in best})
        bj   == IF K = 0 THEN blo ELSE Min({c[2] : c \in {d \in best : d[1] = bi}})
        back == ExtBack(a, b, bi, bj, alo, blo)
        fwd  == ExtFwd(a, b, bi + K, bj + K, ahi, bhi)
    IN  [i |-> bi - back, j |-> bj - back, k |-> K + back + fwd]

\* SequenceMatcher.get_matching_blocks, summed: the sizes of the longest
\* block of the range and, recursively, of the ranges left and right of it.
RECURSIVE matches(_, _, _, _, _, _, _)
matches(a, b, pop, alo, ahi, blo, bhi) ==
    LET m == find_longest_match(a, b, pop, alo, ahi, blo, bhi)
    IN  IF m.k = 0 THEN 0
        ELSE m.k
             + (IF alo < m.i /\ blo < m.j
                THEN matches(a, b, pop, alo, m.i, blo, m.j) ELSE 0)
             + (IF m.i + m.k < ahi /\ m.j + m.k < bhi
                THEN matches(a, b, pop, m.i + m.k, ahi, m.j + m.k, bhi) ELSE 0)

\* The score normalised by the first text alone: 2 * matches / (2 * len(text1)).
calculate_similarity_ref(text1, text2) ==
    LET m == matches(text1, text2, bpopular(text2), 0, Len(text1), 0, Len(text2))
    IN  IF Len(text1) > 0 THEN [num |-> 200 * m, den |-> 2 * Len(text1)]
        ELSE [num |-> 100, den |-> 1]

\* SequenceMatcher.ratio() * 100 as the exact fraction num / den:
\* 2.0 * matches / (len(a) + len(b)) * 100, and 1.0 * 100 when both are empty.
calculate_similarity(text1, text2) ==
    LET length == Len(text1) + Len(text2)
        m      == matches(text1, text2, bpopular(text2), 0, Len(text1), 0, Len(text2))
    IN  IF length > 0 THEN [num |-> 200 * m, den |-> length]
        ELSE [num |-> 100, den |-> 1]

\* Comparison of two scores as numbers.
ScoreEq(s, t) == s.num * t.den = t.num * s.den
ScoreLe(s, t) == s.num * t.den <= t.num * s.den
Score(n) == [num |-> n, den |-> 1]

(***************************************************************************)
(* The preprocessing steps of process_image (cv2.cvtColor, cv2.dilate,     *)
(* cv2.erode, cv2.threshold) on 8-bit images.                              *)
(***************************************************************************)
\* cv2.cvtColor(img, cv2.COLOR_BGR2GRAY) on 8-bit pixels: the fixed-point
\* luminance (1868 B + 9617 G + 4899 R + 2^13) >> 14.
cvtColor(image) ==
    [h |-> image.h, w |-> image.w,
     px |-> [p \in 1..(image.h * image.w) |->
                (1868 * image.px[p][1] + 9617 * image.px[p][2]
                 + 4899 * image.px[p][3] + 8192) \div 16384]]

\* np.ones((1, 1), np.uint8): a structuring element of one row and one column.
kernel == [rows |-> 1, cols |-> 1]

\* The pixels of src under the structuring element k anchored (at its
\* centre) on pixel p; positions outside the image are left out.
Window(src, k, p) ==
    LET y == ((p - 1) \div src.w) + 1
        x == ((p - 1) % src.w) + 1
    IN  {src.px[(yy - 1) * src.w + xx] :
            <<yy, xx>> \in {c \in (1..src.h) \X (1..src.w) :
                /\ c[1] - y + (k.rows \div 2) \in 0..(k.rows - 1)
                /\ c[2] - x + (k.cols \div 2) \in 0..(k.cols - 1)}}

\* cv2.dilate(src, kernel, iterations=1): every pixel becomes the maximum
\* under the structuring element.
dilate(src, k) ==
    [h |-> src.h, w |-> src.w,
     px |-> [p \in 1..(src.h * src.w) |-> Max(Window(src, k, p))]]

\* cv2.erode(src, kernel, iterations=1): every pixel becomes the minimum
\* under the structuring element.
erode(src, k) ==
    [h |-> src.h, w |-> src.w,
     px |-> [p \in 1..(src.h * src.w) |-> Min(Window(src, k, p))]]

RECURSIVE SumOver(_, _)
SumOver(f, S) ==
    IF S = {} THEN 0
    ELSE LET p == CHOOSE q \in S : TRUE IN f[p] + SumOver(f, S \ {p})

\* The split of the pixels of src at level i ("<= i" against "> i"): the
\* number n1 of pixels at or below i, and the between-class variance
\* q1 q2 (mu1 - mu2)^2 as the fraction num / den, its factor 1/N^2 left out:
\* (S1 n2 - S2 n1)^2 / (n1 n2).
OtsuSplit(src, i) ==
    LET all == 1..(src.h * src.w)
        low == {p \in all : src.px[p] <= i}
        n1  == Cardinality(low)
        n2  == Cardinality(all) - n1
        d   == SumOver(src.px, low) * n2 - SumOver(src.px, all \ low) * n1
    IN  [n1 |-> n1, n2 |-> n2, num |-> d * d, den |-> n1 * n2]

\* Otsu's threshold as cv2.threshold computes it for 8-bit images
\* (getThreshVal_Otsu_8u): the first level i of 0..255 that maximises the
\* between-class variance, over the levels that leave at least
\* FLT_EPSILON = 2^-23 of the pixels on each side; 0 when no level has a
\* positive variance.  Variances are compared by cross-multiplication.
Otsu(src) ==
    LET N     == src.h * src.w
        elig  == {i \in 0..255 :
                    LET c == OtsuSplit(src, i)
                    IN  /\ c.n1 * 8388608 >= N
                        /\ c.n2 * 8388608 >= N
                        /\ c.num > 0}
        cls   == {OtsuSplit(src, i) : i \in elig}
        top   == CHOOSE c \in cls : \A e \in cls : e.num * c.den <= c.num * e.den
    IN  IF elig = {} THEN 0
        ELSE Min({i \in elig :
                    LET c == OtsuSplit(src, i)
                    IN  c.num * top.den = top.num * c.den})

\* cv2.threshold with THRESH_BINARY alone: the given thresh is the threshold.
threshold_fixed(src, thresh, maxval) ==
    [h |-> src.h, w |-> src.w,
     px |-> [p \in 1..(src.h * src.w) |-> IF src.px[p] > thresh THEN maxval ELSE 0]]

\* cv2.threshold(src, thresh, maxval, cv2.THRESH_BINARY + cv2.THRESH_OTSU):
\* with THRESH_OTSU the threshold is Otsu's and the given thresh is not used;
\* THRESH_BINARY sets a pixel to maxval when it is above the threshold, else 0.
threshold(src, thresh, maxval) ==
    LET t == Otsu(src)
    IN  [h |-> src.h, w |-> src.w,
         px |-> [p \in 1..(src.h * src.w) |-> IF src.px[p] > t THEN maxval ELSE 0]]

\* Lines 60-69 of process_image: grayscale, dilate, erode, threshold.
preprocess(image) ==
    LET gray        == cvtColor(image)
        img_dilated == dilate(gray, kernel)
        img_eroded  == erode(img_dilated, kernel)
    IN  threshold(img_eroded, 128, 255)

\* The distinct intensity values of a buffer.
Levels(buf) == {buf.px[p] : p \in 1..(buf.h * buf.w)}

(***************************************************************************)
(* check_file_access and OCRProcessor.                                     *)
(***************************************************************************)
\* check_file_access with the file type checked before the read permission.
check_file_access_typefirst(f) ==
    IF ~f.exists
    THEN [ok |-> FALSE, checks |-> <<"exists">>,
          out |-> <<<<"File does not exist.">>>>]
    ELSE IF ~f.regular
    THEN [ok |-> FALSE, checks |-> <<"exists", "isreg">>,
          out |-> <<<<"File permissions: ", f.mode>>,
                    <<"File is not a regular file.">>>>]
    ELSE IF ~f.readable
    THEN [ok |-> FALSE, checks |-> <<"exists", "isreg", "access">>,
          out |-> <<<<"File permissions: ", f.mode>>,
                    <<"File is not readable. Permission denied.">>>>]
    ELSE [ok |-> TRUE, checks |-> <<"exists", "isreg", "access">>,
          out |-> <<<<"File permissions: ", f.mode>>,
                    <<"File is accessible and ready for processing.">>>>]

\* check_file_access(filename) on the file f the name denotes: the value
\* returned (ok), the lines printed (out) and the checks made, in order.
check_file_access(f) ==
    IF ~f.exists
    THEN [ok |-> FALSE, checks |-> <<"exists">>,
          out |-> <<<<"File does not exist.">>>>]
    ELSE IF ~f.readable
    THEN [ok |-> FALSE, checks |-> <<"exists", "access">>,
          out |-> <<<<"File is not readable. Permission denied.">>>>]
    ELSE IF ~f.regular
    THEN [ok |-> FALSE, checks |-> <<"exists", "access", "isreg">>,
          out |-> <<<<"File permissions: ", f.mode>>,
                    <<"File is not a regular file.">>>>]
    ELSE [ok |-> TRUE, checks |-> <<"exists", "access", "isreg">>,
          out |-> <<<<"File permissions: ", f.mode>>,
                    <<"File is accessible and ready for processing.">>>>]

\* A constructor that leaves the global at the library's default.
OCRProcessor_init_default(tesseract_path) == DefaultCmd

\* OCRProcessor.__init__(tesseract_path): the new value of the global
\* pytesseract.pytesseract.tesseract_cmd.
OCRProcessor_init(tesseract_path) == tesseract_path

\* cv2.imread(filename): the decoded image, or None (<<>>) when the file
\* holds no decodable image.
imread(f) == IF f.size = 0 THEN <<>> ELSE f.image

\* pytesseract.image_to_string(img_thresh) with the engine at cmd: the
\* engine's outcome e, or TesseractNotFoundError when none is installed there.
image_to_string(image, cmd, e) ==
    IF cmd \notin Installed
    THEN [ok |-> FALSE, text |-> <<>>,
          cause |-> <<cmd, " is not installed or it's not in your PATH.">>]
    ELSE e

\* The inner error raised to the caller as it is, without the handler's prefix.
Raised_unprefixed(checks, out, stages, prefix, cause) ==
    [checks |-> checks, stdout |-> out, stages |-> stages,
     raised |-> <<[type |-> "RuntimeError", msg |-> cause]>>,
     text |-> <<>>]

\* What one pipeline call did: the checks made, the lines printed, the
\* stages run, the error raised to the caller (at most one) and the value
\* returned (at most one).
Raised(checks, out, stages, prefix, cause) ==
    [checks |-> checks, stdout |-> out, stages |-> stages,
     raised |-> <<[type |-> "RuntimeError", msg |-> <<prefix>> \o cause]>>,
     text |-> <<>>]

\* The stages of process_image, in the order of its statements.
AllStages ==
    <<"validate", "decode", "grayscale", "dilate", "erode", "threshold", "recognize">>

\* The end of process_image: t is what image_to_string did; its text is
\* returned, its failure raised again.
Recognized(acc, t) ==
    IF ~t.ok
    THEN Raised(acc.checks, acc.out, AllStages, "Failed to process image: ", t.cause)
    ELSE [checks |-> acc.checks, stdout |-> acc.out, stages |-> AllStages,
          raised |-> <<>>, text |-> <<t.text>>]

\* process_image that calls check_file_access and goes on whatever it returns.
process_image_unvalidated(f, cmd, e) ==
    LET acc == check_file_access(f)
        image == imread(f)
    IN  IF image = <<>>
        THEN Raised(acc.checks, acc.out, <<"validate", "decode">>,
                    "Failed to process image: ",
                    <<"Failed to read image. The file may be inaccessible or corrupted.">>)
        ELSE Recognized(acc, image_to_string(
                 threshold(erode(dilate(cvtColor(image[1]), kernel), kernel), 128, 255),
                 cmd, e))

\* OCRProcessor.process_image(filename) on file f, with the global
\* tesseract_cmd at cmd and an engine that would answer e.  Every exception
\* of the body is caught and raised again as
\* RuntimeError(f"Failed to process image: {e}").
process_image(f, cmd, e) ==
    LET acc == check_file_access(f)
    IN  IF ~acc.ok
        THEN Raised(acc.checks, acc.out, <<"validate">>,
                    "Failed to process image: ", <<"File is not accessible.">>)
        ELSE
        LET image == imread(f)
        IN  IF image = <<>>
            THEN Raised(acc.checks, acc.out, <<"validate", "decode">>,
                        "Failed to process image: ",
                        <<"Failed to read image. The file may be inaccessible or corrupted.">>)
            ELSE
            LET gray        == cvtColor(image[1])
                img_dilated == dilate(gray, kernel)
                img_eroded  == erode(img_dilated, kernel)
                img_thresh  == threshold(img_eroded, 128, 255)
            IN  Recognized(acc, image_to_string(img_thresh, cmd, e))

\* _ord2ymd of Python's datetime: year, month and day of a day ordinal.
civil(ordinal) ==
    LET n0    == ordinal - 1
        n400  == n0 \div 146097
        r400  == n0 % 146097
        n100  == r400 \div 36524
        r100  == r400 % 36524
        n4    == r100 \div 1461
        r4    == r100 % 1461
        n1    == r4 \div 365
        n     == r4 % 365
        year  == n400 * 400 + 1 + n100 * 100 + n4 * 4 + n1
        leap  == n1 = 3 /\ (n4 # 24 \/ n100 = 3)
        dim   == <<31, IF leap THEN 29 ELSE 28, 31, 30, 31, 30, 31, 31, 30, 31, 30, 31>>
        before(m) == LET S[k \in 0..12] == IF k = 0 THEN 0 ELSE S[k - 1] + dim[k]
                     IN  S[m - 1]
        m0    == (n + 50) \div 32
        month == IF before(m0) > n THEN m0 - 1 ELSE m0
    IN  IF n1 = 4 \/ n100 = 4
        THEN [year |-> year - 1, month |-> 12, day |-> 31]
        ELSE [year |-> year, month |-> month, day |-> n - before(month) + 1]

\* datetime.now(): the fields of a clock reading.
now(r) ==
    LET d == civil(r.day)
    IN  [year |-> d.year, month |-> d.month, day |-> d.day,
         hour |-> r.tick \div 7200, minute |-> (r.tick \div 120) % 60,
         second |-> (r.tick \div 2) % 60, microsecond |-> (r.tick % 2) * 500000]

Digit(d) == <<"0", "1", "2", "3", "4", "5", "6", "7", "8", "9">>[d + 1]

\* n in decimal, zero-padded to w digits.
RECURSIVE Pad(_, _)
Pad(n, w) == IF w = 0 THEN <<>> ELSE Pad(n \div 10, w - 1) \o <<Digit(n % 10)>>

\* The format "%Y%m%d_%H%M" : strftime with the seconds left out.
strftime_minutes(dt) ==
    Pad(dt.year, 4) \o Pad(dt.month, 2) \o Pad(dt.day, 2) \o <<"_">>
    \o Pad(dt.hour, 2) \o Pad(dt.minute, 2)

\* dt.strftime("%Y%m%d_%H%M%S")
strftime(dt) ==
    Pad(dt.year, 4) \o Pad(dt.month, 2) \o Pad(dt.day, 2) \o <<"_">>
    \o Pad(dt.hour, 2) \o Pad(dt.minute, 2) \o Pad(dt.second, 2)

\* os.path.join(output_dir, f"converted_{timestamp}.pdf")
pdf_filename(output_dir, timestamp) ==
    [dir |-> output_dir, base |-> <<"converted_">> \o timestamp \o <<".pdf">>]

\* The files of a directory after a file of the given name and text is
\* written: a file of that name is replaced.
Written(files, name, text) ==
    {g \in files : g.name # name} \cup {[name |-> name, text |-> text]}

\* OCRProcessor.save_to_pdf(text, output_dir) when the directory exists or
\* not (exists), holds files, the clock reads r and the file system refuses
\* as fault says; pdf.write and pdf.output refuse a text with a character
\* outside Latin-1.  Every exception is caught and raised again as
\* RuntimeError(f"Failed to save PDF: {e}").
save_to_pdf(text, output_dir, exists, files, r, fault) ==
    IF ~exists /\ fault = "makedirs"
    THEN [raised |-> <<[type |-> "RuntimeError",
                        msg |-> <<"Failed to save PDF: ",
                                  "[Errno 13] Permission denied: ", output_dir>>]>>,
          pdf |-> <<>>, exists |-> FALSE, files |-> files]
    ELSE
    LET timestamp == strftime(now(r))
        name      == pdf_filename(output_dir, timestamp)
    IN  IF \E k \in 1..Len(text) : text[k] \in NotLatin1
        THEN [raised |-> <<[type |-> "RuntimeError",
                            msg |-> <<"Failed to save PDF: ",
                                      "'latin-1' codec can't encode character", "">>]>>,
              pdf |-> <<>>, exists |-> TRUE, files |-> files]
        ELSE IF fault = "output"
        THEN [raised |-> <<[type |-> "RuntimeError",
                            msg |-> <<"Failed to save PDF: ",
                                      "[Errno 13] Permission denied: ", output_dir>>]>>,
              pdf |-> <<>>, exists |-> TRUE, files |-> files]
        ELSE [raised |-> <<>>, pdf |-> <<name>>, exists |-> TRUE,
              files |-> Written(files, name, text)]

(***************************************************************************)
(* OCRApp: the two button handlers.                                        *)
(***************************************************************************)
\* sample_text of browse_files.
sample_text ==
    <<"W", "e", " ", "s", "t", "a", "r", "t", " ", "W", "i", "t", "h", " ",
      "g", "o", "o", "d", "\n", "\n", "B", "e", "c", "a", "u", "s", "e", " ",
      "a", "l", "l", " ", "b", "u", "s", "i", "n", "e", "s", "s", "e", "s",
      " ", "s", "h", "o", "u", "l", "d", "\n", "\n", "b", "e", " ", "d", "o",
      "i", "n", "g", " ", "s", "o", "m", "e", "t", "h", "i", "n", "g", " ",
      "g", "o", "o", "d">>

\* What an operation that did nothing leaves in last: the operation, the
\* file chosen, the pipeline calls made, the checks, stages and printed lines
\* of process_image, the error a pipeline call raised, the text or the file
\* name it returned, the message box shown.
NoCall ==
    [op |-> "none", file |-> "", calls |-> <<>>, checks |-> <<>>,
     stages |-> <<>>, stdout |-> <<>>, raised |-> <<>>, text |-> <<>>,
     pdf |-> <<>>, shown |-> <<>>]

MessageBox(box, title, text, score, file) ==
    <<[box |-> box, title |-> title, text |-> text, score |-> score, file |-> file]>>

\* The part of browse_files after the call r of process_image, with the
\* held text forgotten when the call failed.
Browsed_clearing(self_result, filename, r) ==
    LET seen == [NoCall EXCEPT !.op = "browse", !.file = filename,
                    !.checks = r.checks, !.stages = r.stages,
                    !.stdout = r.stdout, !.raised = r.raised, !.text = r.text]
    IN  IF r.raised = <<>>
        THEN [result |-> r.text[1],
              last |-> [seen EXCEPT
                  !.calls = <<"process_image", "calculate_similarity">>,
                  !.shown = MessageBox("showinfo", "Accuracy",
                                <<"The accuracy of the model is ", "%">>,
                                <<calculate_similarity(sample_text, r.text[1])>>, <<>>)]]
        ELSE [result |-> <<>>,
              last |-> [seen EXCEPT
                  !.calls = <<"process_image">>,
                  !.shown = MessageBox("showerror", "Error", r.raised[1].msg,
                                       <<>>, <<>>)]]

\* The part of browse_files after the call r of process_image: on success
\* the text is kept in self.result and its accuracy shown (with two
\* decimals; the box holds the score itself here); on RuntimeError the
\* message is shown and self.result is left as it was.
Browsed(self_result, filename, r) ==
    LET seen == [NoCall EXCEPT !.op = "browse", !.file = filename,
                    !.checks = r.checks, !.stages = r.stages,
                    !.stdout = r.stdout, !.raised = r.raised, !.text = r.text]
    IN  IF r.raised = <<>>
        THEN [result |-> r.text[1],
              last |-> [seen EXCEPT
                  !.calls = <<"process_image", "calculate_similarity">>,
                  !.shown = MessageBox("showinfo", "Accuracy",
                                <<"The accuracy of the model is ", "%">>,
                                <<calculate_similarity(sample_text, r.text[1])>>, <<>>)]]
        ELSE [result |-> self_result,
              last |-> [seen EXCEPT
                  !.calls = <<"process_image">>,
                  !.shown = MessageBox("showerror", "Error", r.raised[1].msg,
                                       <<>>, <<>>)]]

\* OCRApp.browse_files when the file dialog returns filename ("" when it is
\* cancelled): the new self.result and what the handler did.
browse_files(self_result, cmd, filename, e) ==
    IF filename = ""
    THEN [result |-> self_result, last |-> [NoCall EXCEPT !.op = "browse"]]
    ELSE Browsed(self_result, filename, process_image(Files[filename], cmd, e))

\* The part of convert_to_pdf after the call w of save_to_pdf.
Converted(w) ==
    LET seen == [NoCall EXCEPT !.op = "convert", !.calls = <<"save_to_pdf">>,
                    !.raised = w.raised, !.pdf = w.pdf]
    IN  [last |-> IF w.raised = <<>>
                  THEN [seen EXCEPT !.shown =
                          MessageBox("showinfo", "Success",
                              <<"Text successfully converted to PDF!\nSaved as ">>,
                              <<>>, w.pdf)]
                  ELSE [seen EXCEPT !.shown =
                          MessageBox("showerror", "Error", w.raised[1].msg, <<>>, <<>>)],
         exists |-> w.exists, files |-> w.files]

\* convert_to_pdf without the guard on an empty held text.
convert_to_pdf_unguarded(self_result, exists, files, r, fault) ==
    Converted(save_to_pdf(self_result, "output", exists, files, r, fault))

\* OCRApp.convert_to_pdf: what the handler did, and the directory and its
\* files afterwards.
convert_to_pdf(self_result, exists, files, r, fault) ==
    IF self_result = <<>>
    THEN [last |-> [NoCall EXCEPT !.op = "convert",
                      !.shown = MessageBox("showwarning", "No text",
                                    <<"No text found to convert to PDF!">>, <<>>, <<>>)],
          exists |-> exists, files |-> files]
    ELSE Converted(save_to_pdf(self_result, "output", exists, files, r, fault))

(***************************************************************************)
(* Spec: one run of the program.  __main__ builds the OCRProcessor and the *)
(* OCRApp; then the buttons are pressed in any order, and further          *)
(* OCRProcessor objects may be constructed.                                *)
(***************************************************************************)
SimIdle == simA = <<>> /\ simB = <<>> /\ simOut = <<>>
PreIdle == img = [h |-> 1, w |-> 1, px |-> <<<<0, 0, 0>>>>] /\ preOut = <<>>

Init ==
    /\ started = FALSE
    /\ tesseract_cmd = DefaultCmd
    /\ result = <<>>
    /\ outdir \in BOOLEAN
    /\ pdfs = {}
    /\ last = NoCall
    /\ lastCtor = DefaultCmd
    /\ lastOk = <<>>
    /\ convFailed = FALSE
    /\ writes = <<>>
    /\ SimIdle /\ PreIdle

\* __main__: OCRProcessor(TESSERACT_PATH), then OCRApp(root, ocr_processor).
Main ==
    /\ ~started
    /\ started' = TRUE
    /\ tesseract_cmd' = OCRProcessor_init(TESSERACT_PATH)
    /\ lastCtor' = TESSERACT_PATH
    /\ result' = <<>>
    /\ last' = [NoCall EXCEPT !.op = "main"]
    /\ UNCHANGED <<outdir, pdfs, lastOk, convFailed, writes>>
    /\ UNCHANGED <<simVars, preVars>>

\* A further OCRProcessor(path) is constructed.
NewProcessor(path) ==
    /\ started
    /\ tesseract_cmd' = OCRProcessor_init(path)
    /\ lastCtor' = path
    /\ last' = [NoCall EXCEPT !.op = "construct"]
    /\ UNCHANGED <<started, result, outdir, pdfs, lastOk, convFailed, writes>>
    /\ UNCHANGED <<simVars, preVars>>

\* The history after the call r of process_image: the text of the latest
\* successful call, and whether this call failed.
Conversion(previous, r) ==
    [text |-> IF r.raised = <<>> THEN r.text[1] ELSE previous,
     failed |-> r.raised # <<>>]

\* The "Browse Files" button: the dialog returns filename, the engine would
\* answer e.  The history follows the process_image call itself.
BrowseFiles(filename, e) ==
    /\ started
    /\ LET b == browse_files(result, tesseract_cmd, filename, e)
       IN  /\ result' = b.result
           /\ last' = b.last
    /\ IF filename = ""
       THEN UNCHANGED <<lastOk, convFailed>>
       ELSE LET h == Conversion(lastOk, process_image(Files[filename], tesseract_cmd, e))
            IN  /\ lastOk' = h.text
                /\ convFailed' = h.failed
    /\ UNCHANGED <<started, tesseract_cmd, outdir, pdfs, lastCtor, writes>>
    /\ UNCHANGED <<simVars, preVars>>

\* The "Convert text to PDF" button, when the clock reads r and the file
\* system refuses as fault says.
ConvertToPdf(r, fault) ==
    /\ started
    /\ LET c == convert_to_pdf(result, outdir, pdfs, r, fault)
       IN  /\ last' = c.last
           /\ outdir' = c.exists
           /\ pdfs' = c.files
    /\ UNCHANGED <<started, tesseract_cmd, result, lastCtor, lastOk, convFailed, writes>>
    /\ UNCHANGED <<simVars, preVars>>

Next ==
    \/ Main
    \/ \E path \in EnginePaths : NewProcessor(path)
    \/ \E filename \in Paths \cup {""}, e \in EngineOutcomes : BrowseFiles(filename, e)
    \/ \E r \in Readings, fault \in Faults : ConvertToPdf(r, fault)

Spec == Init /\ [][Next]_vars

(***************************************************************************)
(* PdfSpec: save_to_pdf called any number of times on one OCRProcessor,    *)
(* with any text, at any clock reading.                                    *)
(***************************************************************************)
PdfInit ==
    /\ started = TRUE
    /\ tesseract_cmd = TESSERACT_PATH
    /\ lastCtor = TESSERACT_PATH
    /\ result = <<>>
    /\ outdir \in BOOLEAN
    /\ pdfs = {}
    /\ last = NoCall
    /\ lastOk = <<>>
    /\ convFailed = FALSE
    /\ writes = <<>>
    /\ SimIdle /\ PreIdle

\* The state after the call w of save_to_pdf(text) at clock reading r.
Saved(history, text, r, w) ==
    [exists |-> w.exists, files |-> w.files,
     last |-> [NoCall EXCEPT !.op = "save", !.calls = <<"save_to_pdf">>,
                  !.raised = w.raised, !.pdf = w.pdf],
     writes |-> IF w.raised = <<>>
                THEN Append(history, [at |-> r, name |-> w.pdf[1], text |-> text])
                ELSE history]

\* One call save_to_pdf(text) (output_dir left at "output"); a successful
\* call is added to the history with its clock reading, file name and text.
SaveToPdf(text, r, fault) ==
    /\ Len(writes) < MaxWrites
    /\ LET s == Saved(writes, text, r, save_to_pdf(text, "output", outdir, pdfs, r, fault))
       IN  /\ outdir' = s.exists
           /\ pdfs' = s.files
           /\ last' = s.last
           /\ writes' = s.writes
    /\ UNCHANGED <<started, tesseract_cmd, result, lastCtor, lastOk, convFailed>>
    /\ UNCHANGED <<simVars, preVars>>

PdfNext == \E text \in OcrTexts, r \in Readings, fault \in Faults : SaveToPdf(text, r, fault)

PdfSpec == PdfInit /\ [][PdfNext]_vars

(***************************************************************************)
(* Properties of one run of the program (Spec).                            *)
(***************************************************************************)
\* The last operation was a browse_files that called process_image.
Converting == last.op = "browse" /\ last.file # ""

\* The three checks in the documented order, and whether file f passes each.
CheckOrder == <<"exists", "access", "isreg">>
Passes(f, c) ==
    CASE c = "exists" -> f.exists
      [] c = "access" -> f.readable
      [] OTHER        -> f.regular

\* The reason that matches the first check file f fails.
Reason(f) ==
    IF ~f.exists THEN <<"File does not exist.">>
    ELSE IF ~f.readable THEN <<"File is not readable. Permission denied.">>
    ELSE <<"File is not a regular file.">>

IsPrefix(s, t) == Len(s) <= Len(t) /\ \A k \in 1..Len(s) : s[k] = t[k]

\* The checks were made in order and stopped at the first that failed, and
\* the call went past validation exactly when all three hold.
ChecksInOrder ==
    LET f == Files[last.file]
        n == Len(last.checks)
    IN  /\ n >= 1 /\ IsPrefix(last.checks, CheckOrder)
        /\ \A k \in 1..(n - 1) : Passes(f, last.checks[k])
        /\ (n < 3 => ~Passes(f, last.checks[n]))
        /\ (Len(last.stages) > 1 <=> f.exists /\ f.readable /\ f.regular)
        /\ (Len(last.stages) > 1 <=> n = 3 /\ Passes(f, last.checks[n]))

\* C1 (as stated): the checks run in the order existence, read permission,
\* regular file and stop at the first failure; the validation succeeds exactly
\* when all three hold; each failure yields its own reason as part of the
\* failure outcome, the error the caller receives.
C1_ReasonInOutcome ==
    Converting =>
        /\ ChecksInOrder
        /\ (last.stages = <<"validate">> =>
                /\ last.raised # <<>>
                /\ Tail(last.raised[1].msg) = Reason(Files[last.file]))

\* C1 (amended): order, short-circuit and success as stated; each failure
\* prints its own reason on standard output, while the value returned is False
\* and the error process_image raises is "File is not accessible." for all
\* three.
C1_ReasonPrinted ==
    Converting =>
        /\ ChecksInOrder
        /\ (last.stages = <<"validate">> =>
                /\ last.stdout[Len(last.stdout)] = Reason(Files[last.file])
                /\ last.raised # <<>>
                /\ last.raised[1].msg =
                     <<"Failed to process image: ", "File is not accessible.">>)
        /\ (Len(last.stages) > 1 =>
                last.stdout[Len(last.stdout)] =
                    <<"File is accessible and ready for processing.">>)

\* C1 witness: validation of a directory that is not readable either has
\* failed, on the read permission.
C1_Witness ==
    /\ Converting
    /\ last.file = "lockeddir"
    /\ last.checks = <<"exists", "access">>
    /\ last.stdout = <<<<"File is not readable. Permission denied.">>>>

\* The stage at which the last pipeline call failed ("" when none did).
FailedStage ==
    IF last.raised = <<>> THEN ""
    ELSE IF "save_to_pdf" \in {last.calls[k] : k \in 1..Len(last.calls)} THEN "write"
    ELSE last.stages[Len(last.stages)]

\* C2 (as stated): a failure reaches the caller as its stage's own error
\* kind: AccessError, ImageError, RecognitionError, WriteError.
C2_OwnErrorKind ==
    last.raised # <<>> =>
        last.raised[1].type =
            CASE FailedStage = "validate"  -> "AccessError"
              [] FailedStage = "decode"    -> "ImageError"
              [] FailedStage = "recognize" -> "RecognitionError"
              [] OTHER                     -> "WriteError"

\* The cause messages a failing engine call may carry.
EngineCauses ==
    {e.cause : e \in {x \in EngineOutcomes : ~x.ok}}
    \cup {<<tesseract_cmd, " is not installed or it's not in your PATH.">>}

\* C2 (amended): every failure reaches the caller as a RuntimeError, of one
\* kind for all stages, whose message is the stage's cause after the prefix
\* "Failed to process image: " (access, decode, recognition, the latter with
\* the engine's own cause message) or "Failed to save PDF: " (output directory
\* or file); the failing call is made once, runs no stage after the failing
\* one and returns nothing.
C2_RuntimeErrorWithCause ==
    last.raised # <<>> =>
        /\ Len(last.raised) = 1
        /\ last.raised[1].type = "RuntimeError"
        /\ last.text = <<>> /\ last.pdf = <<>>
        /\ FailedStage \in {"validate", "decode", "recognize", "write"}
        /\ FailedStage = "write" =>
              /\ last.calls = <<"save_to_pdf">>
              /\ last.raised[1].msg[1] = "Failed to save PDF: "
              /\ Len(last.raised[1].msg) > 1
        /\ FailedStage # "write" =>
              /\ last.calls = <<"process_image">>
              /\ IsPrefix(last.stages, AllStages)
              /\ last.raised[1].msg[1] = "Failed to process image: "
        /\ FailedStage = "validate" =>
              Tail(last.raised[1].msg) = <<"File is not accessible.">>
        /\ FailedStage = "decode" =>
              Tail(last.raised[1].msg) =
                <<"Failed to read image. The file may be inaccessible or corrupted.">>
        /\ FailedStage = "recognize" =>
              /\ Tail(last.raised[1].msg) \in EngineCauses
              /\ (tesseract_cmd \notin Installed =>
                    Tail(last.raised[1].msg)[1] = tesseract_cmd)

\* C2 witness: a recognition failure has reached the caller with the
\* engine's cause message.
C2_Witness ==
    /\ Converting
    /\ last.raised # <<>>
    /\ last.stages = AllStages
    /\ last.raised[1].msg = <<"Failed to process image: ", "Tesseract process timeout">>

\* A conversion that failed returned no text.
FailedGivesNoText ==
    Converting /\ last.raised # <<>> => last.text = <<>>

\* The last operation was a convert_to_pdf that wrote a PDF.
Exported == last.op = "convert" /\ last.pdf # <<>>

\* C3 (as stated): a failed conversion produces no text, and a later export
\* writes no text while the most recent conversion has failed.
C3_NoExportAfterFailure ==
    /\ FailedGivesNoText
    /\ (Exported => ~convFailed)

\* C3 (amended): a failed conversion produces no text and leaves the held
\* text as it was; every PDF an export writes holds the text returned by the
\* most recent successful conversion, also when a later conversion has failed,
\* and none is written before a conversion has returned a non-empty text.
C3_ExportsLastSuccess ==
    /\ FailedGivesNoText
    /\ (Exported =>
            /\ lastOk # <<>>
            /\ [name |-> last.pdf[1], text |-> lastOk] \in pdfs)
    /\ \A g \in pdfs : g.text # <<>>

\* C3 witness: a PDF has been written after the most recent conversion failed.
C3_Witness ==
    /\ Exported
    /\ convFailed
    /\ [name |-> last.pdf[1], text |-> lastOk] \in pdfs

\* C8 (as stated): after the first OCRProcessor is constructed the engine
\* location equals the value supplied at startup, whatever is called or
\* constructed afterwards.
C8_SetOnce ==
    started => tesseract_cmd = TESSERACT_PATH

\* C8 (amended): after the first OCRProcessor is constructed the engine
\* location equals the path given to the most recently constructed
\* OCRProcessor; process_image, save_to_pdf and calculate_similarity leave it
\* as it is.
C8_LatestConstruction ==
    /\ started => tesseract_cmd = lastCtor
    /\ ~started => tesseract_cmd = DefaultCmd

\* C8 witness: a conversion has run after a further OCRProcessor was
\* constructed with another path.
C8_Witness ==
    /\ Converting
    /\ tesseract_cmd = "/usr/bin/tesseract"
    /\ last.raised = <<>>

\* C9: the stages of a process_image call run in the order validate, decode,
\* grayscale, dilate, erode, threshold, recognize, each after the previous one
\* succeeded: no decoding when validation fails, no engine call when
\* validation or decoding fails; a readable 0-byte file passes validation and
\* fails at decoding.
C9_StagesInOrder ==
    Converting =>
        LET f == Files[last.file]
            ran == {last.stages[k] : k \in 1..Len(last.stages)}
        IN  /\ Len(last.stages) >= 1
            /\ IsPrefix(last.stages, AllStages)
            /\ (~(f.exists /\ f.readable /\ f.regular) => last.stages = <<"validate">>)
            /\ (f.exists /\ f.readable /\ f.regular /\ (f.size = 0 \/ f.image = <<>>)
                    => last.stages = <<"validate", "decode">>)
            /\ (last.raised = <<>> => last.stages = AllStages)
            /\ ("recognize" \in ran =>
                    f.exists /\ f.readable /\ f.regular /\ f.image # <<>>)
            /\ (last.file = "empty.png" =>
                    /\ last.checks = CheckOrder
                    /\ last.stages = <<"validate", "decode">>
                    /\ last.raised # <<>>)

\* C9 witness: the 0-byte file has passed validation and failed at decoding.
C9_Witness ==
    /\ Converting
    /\ last.file = "empty.png"
    /\ Files[last.file].size = 0
    /\ last.stages = <<"validate", "decode">>

\* C10: the held text is the text of the most recent successful
\* process_image call, or empty if there was none; a failed conversion, a
\* cancelled dialog and an export leave it unchanged; convert_to_pdf calls
\* save_to_pdf only when it is non-empty.
C10_HeldText ==
    /\ result = lastOk
    /\ (last.op = "convert" /\ last.calls # <<>> => result # <<>>)
    /\ (last.op = "convert" /\ result = <<>> =>
            last.calls = <<>> /\ last.shown[1].title = "No text")

\* C10 witness: a failed conversion has left a non-empty held text in place.
C10_Witness ==
    /\ Converting
    /\ convFailed
    /\ result = <<"W", "e">>

(***************************************************************************)
(* Properties of sequences of save_to_pdf calls (PdfSpec).                 *)
(***************************************************************************)
Abs(n) == IF n < 0 THEN -n ELSE n

Digits == {"0", "1", "2", "3", "4", "5", "6", "7", "8", "9"}

\* name is "converted_<YYYYMMDD_HHMMSS>.pdf" in the directory "output".
WellFormedName(name) ==
    /\ name.dir = "output"
    /\ Len(name.base) = 17
    /\ name.base[1] = "converted_"
    /\ name.base[17] = ".pdf"
    /\ name.base[10] = "_"
    /\ \A k \in (2..16) \ {10} : name.base[k] \in Digits

\* C4: two successful writes whose clock readings differ by at least one
\* second return distinct names of the form converted_<YYYYMMDD_HHMMSS>.pdf;
\* names collide only when both writes read the same second; and a written
\* artifact holds the full text submitted to it for as long as no later write
\* reads the same second.
C4_NoOverwriteAcrossSeconds ==
    /\ \A i \in 1..Len(writes) :
          /\ WellFormedName(writes[i].name)
          /\ (\A j \in (i + 1)..Len(writes) :
                 SecondOf(writes[j].at) # SecondOf(writes[i].at))
             => [name |-> writes[i].name, text |-> writes[i].text] \in pdfs
    /\ \A i, j \in 1..Len(writes) :
          /\ (Abs(TicksBetween(writes[i].at, writes[j].at)) >= 2
                 => writes[i].name # writes[j].name)
          /\ (writes[i].name = writes[j].name
                 => SecondOf(writes[i].at) = SecondOf(writes[j].at))
    /\ \A g, h \in pdfs : g.name = h.name => g = h

\* C4 witness: two writes one second apart, across midnight of 31 December,
\* have left two artifacts, each with its own text.
C4_Witness ==
    /\ Len(writes) >= 2
    /\ writes[1].at = Reading(0) /\ writes[1].text = <<"W", "e">>
    /\ writes[2].at = Reading(2) /\ writes[2].text = <<"a", "b">>
    /\ [name |-> writes[1].name, text |-> <<"W", "e">>] \in pdfs
    /\ [name |-> writes[2].name, text |-> <<"a", "b">>] \in pdfs
    /\ writes[1].name.base = <<"converted_", "2", "0", "2", "3", "1", "2", "3", "1",
                               "_", "2", "3", "5", "9", "5", "9", ".pdf">>
    /\ writes[2].name.base = <<"converted_", "2", "0", "2", "4", "0", "1", "0", "1",
                               "_", "0", "0", "0", "0", "0", "0", ".pdf">>

(***************************************************************************)
(* SimSpec: calculate_similarity applied to every pair of texts.           *)
(***************************************************************************)
AppIdle ==
    /\ started = FALSE /\ tesseract_cmd = DefaultCmd /\ lastCtor = DefaultCmd
    /\ result = <<>> /\ outdir = FALSE /\ pdfs = {} /\ last = NoCall
    /\ lastOk = <<>> /\ convFailed = FALSE /\ writes = <<>>

SimInit ==
    /\ simA \in SimTexts
    /\ simB \in SimTexts
    /\ simOut = <<>>
    /\ PreIdle /\ AppIdle

\* One call calculate_similarity(simA, simB); simOut holds what it returned.
SimCall ==
    /\ simOut = <<>>
    /\ simOut' = <<calculate_similarity(simA, simB)>>
    /\ UNCHANGED <<simA, simB>>
    /\ UNCHANGED <<preVars, appVars>>

SimNext == SimCall

SimSpec == SimInit /\ [][SimNext]_vars

(***************************************************************************)
(* PreSpec: the preprocessing steps applied to every decoded image.        *)
(***************************************************************************)
PreInit ==
    /\ img \in Images
    /\ preOut = <<>>
    /\ SimIdle /\ AppIdle

\* The preprocessing of one decoded image; preOut holds img_thresh.
PreCall ==
    /\ preOut = <<>>
    /\ preOut' = <<preprocess(img)>>
    /\ UNCHANGED img
    /\ UNCHANGED <<simVars, appVars>>

PreNext == PreCall

PreSpec == PreInit /\ [][PreNext]_vars

\* C7 (as stated): for every decodable image, an image of one intensity
\* included, the preprocessing produces a buffer with exactly two distinct
\* intensity values.
C7_ExactlyTwoLevels ==
    preOut # <<>> => Cardinality(Levels(preOut[1])) = 2

\* C7 (amended): the buffer has the size of the image and holds only the
\* values 0 and 255; for an image of fewer than 2^23 pixels it holds both when
\* the grayscale image has at least two distinct intensities, and exactly one
\* of them (0 for an all-black image, else 255) when all pixels have the same
\* intensity.
C7_TwoLevelsUnlessUniform ==
    preOut # <<>> =>
        LET g == Levels(cvtColor(img))
            out == Levels(preOut[1])
        IN  /\ out \subseteq {0, 255}
            /\ preOut[1].h = img.h /\ preOut[1].w = img.w
            /\ (Cardinality(g) >= 2 /\ img.h * img.w < 8388608 => out = {0, 255})
            /\ (Cardinality(g) = 1 => out = (IF g = {0} THEN {0} ELSE {255}))

\* C7 witness: an image with three distinct intensities has been binarized.
C7_Witness ==
    /\ preOut # <<>>
    /\ Cardinality(Levels(cvtColor(img))) = 3
    /\ Levels(preOut[1]) = {0, 255}


\* The characters of a text.
Chars(t) == {t[k] : k \in 1..Len(t)}

\* s occurs in t as a contiguous block.
IsBlockOf(s, t) ==
    \E k \in 0..(Len(t) - Len(s)) : \A n \in 1..Len(s) : t[k + n] = s[n]

C6_RangeAndValues ==
    simOut # <<>> =>
        /\ ScoreLe(Score(0), simOut[1]) /\ ScoreLe(simOut[1], Score(100))
        /\ (simA = simB /\ simA # <<>> => ScoreEq(simOut[1], Score(100)))
        /\ (simA # <<>> /\ simB = <<>> => ScoreEq(simOut[1], Score(0)))
        /\ (Chars(simA) \cap Chars(simB) = {} => ScoreEq(simOut[1], Score(0)))

\* C6 (amended): as stated, except that the score of two texts sharing no
\* character is 0.0 only when at least one of them is non-empty; two empty
\* texts score 100.0.
C6_RangeAndValuesNonEmpty ==
    simOut # <<>> =>
        /\ ScoreLe(Score(0), simOut[1]) /\ ScoreLe(simOut[1], Score(100))
        /\ (simA = simB /\ simA # <<>> => ScoreEq(simOut[1], Score(100)))
        /\ (simA # <<>> /\ simB = <<>> => ScoreEq(simOut[1], Score(0)))
        /\ (Chars(simA) \cap Chars(simB) = {} /\ Len(simA) + Len(simB) > 0
                => ScoreEq(simOut[1], Score(0)))
        /\ (simA = <<>> /\ simB = <<>> => ScoreEq(simOut[1], Score(100)))

\* C6 witness: a text of 200 characters has been scored against itself.
C6_Witness ==
    /\ simOut # <<>>
    /\ simA = simB
    /\ Len(simA) >= 200
    /\ ScoreEq(simOut[1], Score(100))

====
